---- MODULE Spec2Model ----
(***************************************************************************)
(* Model of the ComplianceTool core: the persistent vector index           *)
(* (storage/vector_store.py) and the audit-pack assembler                  *)
(* (services/audit_pack.py).                                                *)
(*                                                                         *)
(* Python lists and numpy rows are sequences; a Python index i is the      *)
(* position i + 1 of the sequence.  A file is a record [st, data] whose st *)
(* is "absent", "corrupt" (a partially written file) or "ok".              *)
(***************************************************************************)
EXTENDS Integers, Sequences, FiniteSets, TLC

\* ------------------------------------------------------------------ bounds
MaxVectors == 2      \* rows the index may hold before add is no longer called
MaxBatch == 2        \* rows / metadata dicts of one add call
MaxK == 2            \* largest top_k of a search
MaxItems == 2        \* largest max_items of a build
MaxText == 3         \* longest excerpt given to the redaction step alone
MaxPatterns == 2     \* longest pattern list given to it

\* --------------------------------------------------------------- constants
Dim == 2             \* VectorStore.dim (384 in the source, 2 here)
BadInt == -1         \* a dict value that int() rejects (ValueError)
ExcerptMax == 300    \* the cut of an excerpt, [:300]
ChunkTokens == 500   \* max_tokens of the chunks Ingestor.ingest_file asks for
NoDigest == -1       \* None where a digest may stand
DigestSpace == 32749   \* the number of digests of the model (2^256 in the source)

MaxRecords == MaxVectors   \* records the metadata list may hold likewise

\* ---------------------------------------------------------------- helpers
Range(s) == {s[i] : i \in 1..Len(s)}

Take(s, n) == SubSeq(s, 1, IF n < Len(s) THEN n ELSE Len(s))

SeqsUpTo(S, lo, hi) == UNION {[1..n -> S] : n \in lo..hi}

AbsentFile == [st |-> "absent", data |-> <<>>]
CorruptFile == [st |-> "corrupt", data |-> <<>>]
OkFile(d) == [st |-> "ok", data |-> d]

\* ------------------------------------------------------------ input pools
VecPool == {<<1, 0>>, <<1, 1>>}
ShortVec == <<1>>                       \* a row of the wrong dimension
QueryPool == {<<1, 1>>}


\* ------------------------------------------------------- text and digests
\* A str is a sequence of characters; "pm" is the plus-minus sign and "blk"
\* the block glyph U+2588.  A bytes value is a sequence of numbers.
Chars == {"a", "P", "pm", "blk"}

\* str.encode("utf-8") of one character, and of a str (what a file opened
\* with encoding="utf-8" holds once written).
Utf8Char(c) ==
    CASE c = "a" -> <<97>>
      [] c = "P" -> <<80>>
      [] c = "pm" -> <<194, 177>>
      [] c = "blk" -> <<226, 150, 136>>

RECURSIVE Utf8(_)
Utf8(text) == IF text = <<>> THEN <<>> ELSE Utf8Char(Head(text)) \o Utf8(Tail(text))

\* The bytes of the names the model uses (file names, document ids, queries).
NameBytes(name) ==
    CASE name = "a.txt" -> <<97>>
      [] name = "b.txt" -> <<98>>
      [] name = "x/a.txt" -> <<120, 47, 97>>
      [] name = "d1" -> <<100, 49>>
      [] name = "d2" -> <<100, 50>>
      [] name = "d3" -> <<100, 51>>
      [] name = "c1" -> <<99, 49>>
      [] name = "q1" -> <<113, 49>>
      [] name = "q2" -> <<113, 50>>
      [] OTHER -> <<>>

\* hashlib.sha256(b).hexdigest(): a digest of every byte and of the length,
\* folded into a fixed width.
RECURSIVE DigestPow(_)
DigestPow(n) ==
    IF n = 0 THEN 1
    ELSE LET r == DigestPow(n \div 2) IN
         (((r * r) % DigestSpace) * (IF n % 2 = 1 THEN 257 ELSE 1)) % DigestSpace

\* The fingerprint of b[lo..hi], the halves combined.
RECURSIVE DigestOf(_, _, _)
DigestOf(b, lo, hi) ==
    IF lo > hi THEN 0
    ELSE IF lo = hi THEN (b[lo] + 1) % DigestSpace
    ELSE LET mid == (lo + hi) \div 2 IN
         (DigestOf(b, lo, mid) * DigestPow(hi - mid) + DigestOf(b, mid + 1, hi)) % DigestSpace

Sha256(b) == (7 * DigestPow(Len(b)) + DigestOf(b, 1, Len(b))) % DigestSpace

\* utils.hashing.sha256_hex(text): the digest of the utf-8 bytes of a str.
sha256_hex(text) == Sha256(Utf8(text))

\* ----------------------------------------------------------- redaction
\* A pattern is a regular expression: a literal (the characters it matches)
\* or one that re cannot compile.
Literal(lit) == [valid |-> TRUE, lit |-> lit]
BadPattern == [valid |-> FALSE, lit |-> <<>>]

\* The replacement of re.sub at line 178.
Glyph == <<"blk", "blk", "blk", "blk">>

MatchesAt(lit, text, i) ==
    /\ i + Len(lit) - 1 <= Len(text)
    /\ SubSeq(text, i, i + Len(lit) - 1) = lit

\* len(re.findall(pat, text)): the matches, leftmost first, not overlapping.
RECURSIVE FindAllFrom(_, _, _)
FindAllFrom(lit, text, i) ==
    IF i > Len(text) THEN 0
    ELSE IF MatchesAt(lit, text, i)
         THEN 1 + FindAllFrom(lit, text, i + Len(lit))
         ELSE FindAllFrom(lit, text, i + 1)

\* re.sub(pat, glyph, text, count=1): the first match alone replaced.
RECURSIVE SubFirstFrom(_, _, _)
SubFirstFrom(lit, text, i) ==
    IF i > Len(text) THEN <<>>
    ELSE IF MatchesAt(lit, text, i)
         THEN Glyph \o SubSeq(text, i + Len(lit), Len(text))
         ELSE <<text[i]>> \o SubFirstFrom(lit, text, i + 1)

\* re.sub(pat, glyph, text).
RECURSIVE SubFrom(_, _, _)
SubFrom(lit, text, i) ==
    IF i > Len(text) THEN <<>>
    ELSE IF MatchesAt(lit, text, i)
         THEN Glyph \o SubFrom(lit, text, i + Len(lit))
         ELSE <<text[i]>> \o SubFrom(lit, text, i + 1)

\* d[key] = val on a dict kept as the sequence of its items in insertion
\* order: an existing key keeps its place and takes the new value.
DictSet(d, key, val) ==
    IF \E i \in 1..Len(d) : d[i].key = key
    THEN [i \in 1..Len(d) |-> IF d[i].key = key THEN [key |-> key, val |-> val] ELSE d[i]]
    ELSE Append(d, [key |-> key, val |-> val])

DictValues(d) == [i \in 1..Len(d) |-> d[i].val]

\* The loop left at the first pattern that re cannot compile.
RECURSIVE ApplyUntilInvalid(_, _, _, _)
ApplyUntilInvalid(redacted, matches, pats, i) ==
    IF i > Len(pats) \/ ~pats[i].valid THEN [text |-> redacted, matches |-> matches]
    ELSE LET cnt == FindAllFrom(pats[i].lit, redacted, 1) IN
         IF cnt # 0
         THEN ApplyUntilInvalid(SubFrom(pats[i].lit, redacted, 1),
                                DictSet(matches, pats[i], cnt), pats, i + 1)
         ELSE ApplyUntilInvalid(redacted, matches, pats, i + 1)

\* _apply_redactions_text, lines 171-182: [text, matches].
RECURSIVE ApplyFrom(_, _, _, _)
ApplyFrom(redacted, matches, pats, i) ==
    IF i > Len(pats) THEN [text |-> redacted, matches |-> matches]
    ELSE LET pat == pats[i] IN
         IF ~pat.valid
         THEN ApplyFrom(redacted, matches, pats, i + 1)
         ELSE LET cnt == FindAllFrom(pat.lit, redacted, 1) IN
              IF cnt # 0
              THEN ApplyFrom(SubFrom(pat.lit, redacted, 1), DictSet(matches, pat, cnt),
                             pats, i + 1)
              ELSE ApplyFrom(redacted, matches, pats, i + 1)

ApplyRedactionsText(content, pats) == ApplyFrom(content, <<>>, pats, 1)

\* A dict as Ingestor.ingest_file builds it (ingest.py lines 141-151).
Meta(d, f, p, l, t) ==
    [doc_id |-> d, filename |-> f, page_number |-> p, line_start |-> l,
     line_end |-> l, text_hash |-> sha256_hex(t), text |-> t]

\* A line of a page: the number of its whitespace-separated words, and its
\* text (empty for a blank line).
Line(n) == [words |-> n, text |-> IF n = 0 THEN <<>> ELSE <<"a">>]

\* "\n".join(current_lines).strip(), lines 47 and 58.
RECURSIVE JoinLines(_, _)
JoinLines(cur, i) == IF i > Len(cur) THEN <<>> ELSE cur[i].text \o JoinLines(cur, i + 1)

\* chunk_text, lines 48-49 and 59-60: the chunk appended unless it is blank.
ChunkAppended(chunks, cur, first, last) ==
    IF JoinLines(cur, 1) # <<>>
    THEN Append(chunks, [text |-> JoinLines(cur, 1), line_start |-> first, line_end |-> last])
    ELSE chunks

\* chunk_text, the loop of lines 43-55 from line idx on, then lines 57-60.
RECURSIVE ChunkFrom(_, _, _, _, _, _, _)
ChunkFrom(lines, max_tokens, idx, cur, count, first, chunks) ==
    IF idx > Len(lines)
    THEN IF cur # <<>> THEN ChunkAppended(chunks, cur, first, Len(lines)) ELSE chunks
    ELSE LET prospective == count + lines[idx].words IN
         IF prospective > max_tokens /\ cur # <<>>
         THEN ChunkFrom(lines, max_tokens, idx + 1, <<lines[idx]>>, lines[idx].words, idx,
                        ChunkAppended(chunks, cur, first, idx - 1))
         ELSE ChunkFrom(lines, max_tokens, idx + 1, Append(cur, lines[idx]), prospective,
                        first, chunks)

\* chunk_text with preserve_lines, lines 24-25 and 38-62.
ChunkText(lines, max_tokens) ==
    IF JoinLines(lines, 1) = <<>> /\ Len(lines) <= 1 THEN <<>>
    ELSE ChunkFrom(lines, max_tokens, 1, <<>>, 0, 1, <<>>)

\* The page the ingested file has: a blank line, two lines that fit one
\* chunk together, a line that does not fit with them.
UploadedPage == <<Line(0), Line(200), Line(200), Line(300)>>

\* The dict of ingest.py lines 141-151 for a chunk of chunk_text.
ChunkMeta(d, f, p, c) ==
    [doc_id |-> d, filename |-> f, page_number |-> p, line_start |-> c.line_start,
     line_end |-> c.line_end, text_hash |-> sha256_hex(c.text), text |-> c.text]

\* The dicts add is given: that of the uploaded page's first chunk (three
\* lines long), and one whose page_number is not a number.
MetaPool ==
    {ChunkMeta("d1", "a.txt", 1, ChunkText(UploadedPage, ChunkTokens)[1]),
     Meta("d1", "a.txt", BadInt, 1, <<"a">>)}

\* The batches an add may be called with: a 2-D array has rows of one width.
Batches ==
    SeqsUpTo(VecPool, 1, MaxBatch) \cup {<<ShortVec>>}

MetaLists == SeqsUpTo(MetaPool, 0, MaxBatch)

VARIABLES
    faissAvailable,  \* whether `import faiss` succeeds in this environment
    use_faiss,       \* VectorStore.use_faiss
    index,           \* VectorStore.index: rows of the FAISS index (<<>> for None)
    embeddings,      \* VectorStore.embeddings: rows of the NumPy matrix (<<>> for None)
    metadata,        \* VectorStore.metadata
    diskFaiss,       \* storage/index.faiss
    diskNpy,         \* storage/index.npy
    diskMeta,        \* storage/meta.json
    vpc,             \* where the process is: "idle", "add_loop" (lines 110-123),
                     \* "add_save" (line 124), "down" (crashed, not constructed)
    addArgs,         \* the (embeddings, metadatas) of the add in progress
    start_id,        \* add's local start_id
    addI,            \* add's loop position (1-based)
    pre,             \* memory and files as they were when add was called
    lastOp,          \* the last call that ended and how: "none", "add_returned",
                     \* "add_raised", "construct", "construct_raised", "search", "crash"
    lastSearch,      \* [q, k, res]: the last search and what it returned
    crashedAt,       \* where the process last died: "none" (never), its vpc, or
                     \* "between_writes" (line 123 done, line 124 not, the
                     \* rows and records in memory equal in number)
    reader,          \* a search running beside add: [pc, q, k, scores, indices, nvec]
    seen,            \* [nvec, nmeta]: the counts the last concurrent search read
    linear,          \* the (rows, records) between adds since that search began
    peer,            \* a second VectorStore object on the same storage directory
                     \* (SearchEngine().vstore, a fresh Ingestor().vstore): [up,
                     \* owner, use_faiss, rows, metadata, op, res]
    drafts,          \* storage/drafts: the draft files, each [car_id, provenance]
    configPatterns,  \* the patterns of config/redaction.yaml
    bpc,             \* build_audit_pack's next step: "idle", "collect", "write",
                     \* "index", "manifest", "chain", "zip", "finalize", "return",
                     \* then "returned" or "raised"
    req,             \* the arguments of the call
    pack_id,         \* the pack id (0: none allocated)
    buildDir,        \* whether packs/<pack_id> with evidence/ and redactions/ exists
    evidence,        \* the local evidence
    patterns,        \* merged_redaction["patterns"]
    widx,            \* idx of the loop of lines 320-334
    evidence_files,  \* the local evidence_files: (path, ev) pairs
    evDir,           \* packs/<pack_id>/evidence: a dict name -> file
    redDir,          \* packs/<pack_id>/redactions: a dict name -> file
    rootDir,         \* the files directly in packs/<pack_id>: a dict name -> file
    chain,           \* the local chain
    zipFile,         \* packs/<pack_id>.zip
    result,          \* what the call returned
    clock,           \* the time
    redactCall,      \* a call of _apply_redactions_text by itself: its arguments
                     \* and, once done, what it returned
    candidates,      \* the two pools of line 299-303 together, before lines 305-309
    failedAt,        \* the step that raised ("none": no step has)
    other            \* a second call of build_audit_pack in the same process, while
                     \* it is not the one taking a step: its locals and its files

storeVars == <<faissAvailable, use_faiss, index, embeddings, metadata, diskFaiss,
               diskNpy, diskMeta, vpc, addArgs, start_id, addI, pre, lastOp,
               lastSearch, crashedAt>>

readerVars == <<reader, seen, linear, peer>>

packEnv == <<drafts, configPatterns, redactCall, other>>

packTrace == <<candidates, failedAt>>

packVars == <<packEnv, bpc, req, pack_id, buildDir, evidence, patterns, widx,
              evidence_files, evDir, redDir, rootDir, chain, zipFile, result, clock,
              packTrace>>

vars == <<storeVars, readerVars, packVars>>

\* The rows the store searches: the FAISS index or the NumPy matrix.
Vectors == IF use_faiss THEN index ELSE embeddings

IdleReader == [pc |-> "idle", q |-> <<0, 0>>, k |-> 0, scores |-> <<>>,
               indices |-> <<>>, nvec |-> 0]

NoArgs == [embeddings |-> <<>>, metadatas |-> <<>>]
\* No second object constructed.
NoPeer == [up |-> FALSE, owner |-> "none", use_faiss |-> FALSE, rows |-> <<>>,
           metadata |-> <<>>, op |-> "none", res |-> <<>>]

NoSearch == [q |-> <<0, 0>>, k |-> 0, res |-> <<>>, payload |-> <<>>]

EmptySnapshot ==
    [index |-> <<>>, embeddings |-> <<>>, metadata |-> <<>>,
     diskFaiss |-> AbsentFile, diskNpy |-> AbsentFile, diskMeta |-> AbsentFile]

Snapshot ==
    [index |-> index, embeddings |-> embeddings, metadata |-> metadata,
     diskFaiss |-> diskFaiss, diskNpy |-> diskNpy, diskMeta |-> diskMeta]

\* ------------------------------------------------- VectorStore.__init__
\* _init_index: what the constructor makes of the index files.  The result is
\* [raised, use_faiss, index, embeddings].
InitIndex(avail, fFaiss, fNpy) ==
    IF avail /\ fFaiss.st = "ok"
    THEN [raised |-> FALSE, use_faiss |-> TRUE, index |-> fFaiss.data, embeddings |-> <<>>]
    ELSE IF avail /\ fFaiss.st = "absent"
    THEN [raised |-> FALSE, use_faiss |-> TRUE, index |-> <<>>, embeddings |-> <<>>]
    ELSE \* import faiss or faiss.read_index raised: the except branch
         IF fNpy.st = "ok"
         THEN [raised |-> FALSE, use_faiss |-> FALSE, index |-> <<>>, embeddings |-> fNpy.data]
         ELSE IF fNpy.st = "absent"
         THEN [raised |-> FALSE, use_faiss |-> FALSE, index |-> <<>>, embeddings |-> <<>>]
         ELSE \* np.load raises inside the except branch: __init__ raises
              [raised |-> TRUE, use_faiss |-> FALSE, index |-> <<>>, embeddings |-> <<>>]

\* asdict(m) for a VectorRecord, and VectorRecord(**rec) back.
RecordToDict(m) ==
    [id |-> m.id, doc_id |-> m.doc_id, filename |-> m.filename,
     page_number |-> m.page_number, line_start |-> m.line_start,
     line_end |-> m.line_end, text_hash |-> m.text_hash, text |-> m.text]

DictToRecord(d) ==
    [id |-> d.id, doc_id |-> d.doc_id, filename |-> d.filename,
     page_number |-> d.page_number, line_start |-> d.line_start,
     line_end |-> d.line_end, text_hash |-> d.text_hash, text |-> d.text]

\* _load_metadata: a missing or unreadable meta.json gives the empty list.
LoadMetadata(fMeta) ==
    IF fMeta.st = "ok"
    THEN [i \in 1..Len(fMeta.data.records) |-> DictToRecord(fMeta.data.records[i])]
    ELSE <<>>

\* _save_metadata's document.
MetadataDocument(md) == [records |-> [i \in 1..Len(md) |-> RecordToDict(md[i])]]

Construct ==
    /\ vpc = "down"
    /\ LET r == InitIndex(faissAvailable, diskFaiss, diskNpy) IN
       IF r.raised
       THEN /\ lastOp' = "construct_raised"
            /\ UNCHANGED <<use_faiss, index, embeddings, metadata, vpc>>
       ELSE /\ use_faiss' = r.use_faiss
            /\ index' = r.index
            /\ embeddings' = r.embeddings
            /\ metadata' = LoadMetadata(diskMeta)
            /\ vpc' = "idle"
            /\ lastOp' = "construct"
    /\ pre' = EmptySnapshot
    /\ lastSearch' = NoSearch
    /\ UNCHANGED <<faissAvailable, diskFaiss, diskNpy, diskMeta, addArgs, start_id, addI,
                   crashedAt, readerVars>>
    /\ UNCHANGED packVars

NoResult == [pack_id |-> 0, items |-> 0]

NoRequest ==
    [car_id |-> "", query |-> "", doc_ids |-> {}, include_forms |-> TRUE,
     redaction |-> [given |-> FALSE, patterns |-> <<>>, mode |-> "overlay"],
     max_items |-> 0]

NoChain ==
    [pack_id |-> 0, created_by |-> "dev", created_at |-> 0, query_or_car_id |-> "",
     filters |-> {}, evidence_ids |-> <<>>, redaction_mode |-> "overlay",
     sha256_of_zip |-> NoDigest]

\* No call of the redaction step by itself.
NoRedactCall ==
    [content |-> <<>>, pats |-> <<>>, done |-> FALSE, text |-> <<>>, matches |-> <<>>]

\* A call of build_audit_pack that has not begun.
NoBuild ==
    [bpc |-> "idle", req |-> NoRequest, pack_id |-> 0, buildDir |-> FALSE, evidence |-> <<>>,
     patterns |-> <<>>, widx |-> 1, evidence_files |-> <<>>, evDir |-> <<>>, redDir |-> <<>>,
     rootDir |-> <<>>, chain |-> NoChain, zipFile |-> AbsentFile, result |-> NoResult,
     candidates |-> <<>>, failedAt |-> "none"]

\* No build has been asked for.
PackIdle ==
    /\ bpc = "idle"
    /\ req = NoRequest
    /\ pack_id = 0
    /\ buildDir = FALSE
    /\ evidence = <<>>
    /\ patterns = <<>>
    /\ widx = 1
    /\ evidence_files = <<>>
    /\ evDir = <<>>
    /\ redDir = <<>>
    /\ rootDir = <<>>
    /\ chain = NoChain
    /\ zipFile = AbsentFile
    /\ result = NoResult
    /\ clock = 0
    /\ candidates = <<>>
    /\ failedAt = "none"
    /\ other = NoBuild

StoreIdle ==
    /\ vpc = "idle"
    /\ addArgs = NoArgs
    /\ start_id = 0
    /\ addI = 1
    /\ pre = EmptySnapshot
    /\ lastOp = "none"
    /\ lastSearch = NoSearch
    /\ crashedAt = "none"
    /\ reader = IdleReader
    /\ seen = [nvec |-> 0, nmeta |-> 0]
    /\ linear = {}
    /\ peer = NoPeer

\* A store constructed on an empty storage directory.
Init ==
    /\ faissAvailable \in BOOLEAN
    /\ use_faiss = faissAvailable
    /\ index = <<>>
    /\ embeddings = <<>>
    /\ metadata = <<>>
    /\ diskFaiss = AbsentFile
    /\ diskNpy = AbsentFile
    /\ diskMeta = AbsentFile
    /\ StoreIdle
    /\ drafts = {}
    /\ configPatterns = <<>>
    /\ redactCall = NoRedactCall
    /\ PackIdle

\* ------------------------------------------------------- VectorStore.add
\* The rows after lines 100-107: index.add for FAISS; for NumPy the batch itself
\* when the matrix is None or empty, else np.vstack.
AppendRows(rows, batch) == IF Len(rows) = 0 THEN batch ELSE rows \o batch

\* The VectorRecord of lines 111-120 for the i-th dict (1-based) of the call.
MakeRecord(sid, i, meta) ==
    [id |-> sid + (i - 1), doc_id |-> meta.doc_id, filename |-> meta.filename,
     page_number |-> meta.page_number, line_start |-> meta.line_start,
     line_end |-> meta.line_end, text_hash |-> meta.text_hash, text |-> meta.text]

\* add, lines 99-109: the assertion on the batch's width, the rows appended in
\* memory, start_id read.  A failed assertion raises before anything changes.
AddCall(vs, ms) ==
    /\ vpc = "idle"
    /\ Len(Vectors) + Len(vs) <= MaxVectors
    /\ Len(metadata) + Len(ms) <= MaxRecords
    /\ pre' = Snapshot
    /\ lastSearch' = NoSearch
    /\ IF Len(vs[1]) # Dim
       THEN /\ lastOp' = "add_raised"
            /\ UNCHANGED <<index, embeddings, vpc, addArgs, start_id, addI>>
       ELSE /\ index' = IF use_faiss THEN index \o vs ELSE index
            /\ embeddings' = IF use_faiss THEN embeddings ELSE AppendRows(embeddings, vs)
            /\ start_id' = Len(metadata)
            /\ addI' = 1
            /\ addArgs' = [embeddings |-> vs, metadatas |-> ms]
            /\ vpc' = "add_loop"
            /\ lastOp' = "none"
    /\ crashedAt' = "none"
    /\ linear' = IF reader.pc = "idle" \/ Len(vs[1]) # Dim
                 THEN linear
                 ELSE linear \cup {<<IF use_faiss THEN index \o vs ELSE AppendRows(embeddings, vs),
                                     metadata \o [i \in 1..Len(ms) |->
                                                    MakeRecord(Len(metadata), i, ms[i])]>>}
    /\ UNCHANGED <<faissAvailable, use_faiss, metadata, diskFaiss, diskNpy, diskMeta,
                   reader, seen, peer>>
    /\ UNCHANGED packVars

\* One turn of the loop of lines 110-121: int() of a non-numeric value raises.
AddMeta ==
    /\ vpc = "add_loop"
    /\ addI <= Len(addArgs.metadatas)
    /\ LET meta == addArgs.metadatas[addI] IN
       IF meta.page_number = BadInt
       THEN /\ vpc' = "idle"
            /\ lastOp' = "add_raised"
            /\ addArgs' = NoArgs
            /\ addI' = 1
            /\ UNCHANGED metadata
       ELSE /\ metadata' = Append(metadata, MakeRecord(start_id, addI, meta))
            /\ addI' = addI + 1
            /\ UNCHANGED <<vpc, lastOp, addArgs>>
    /\ UNCHANGED <<faissAvailable, use_faiss, index, embeddings, diskFaiss, diskNpy,
                   diskMeta, start_id, pre, lastSearch, crashedAt, readerVars>>
    /\ UNCHANGED packVars

\* What a write that fails leaves at the path: the old file (the open failed)
\* or a partial one (open(..., "w") truncates, then the write fails).
AfterFailedWrite(f) == {f, CorruptFile}

\* _persist_index, line 123.  NumPy: np.save, whose failure propagates out of
\* add.  FAISS: write_index inside try/except, whose failure is logged only.
PersistIndex ==
    /\ vpc = "add_loop"
    /\ addI > Len(addArgs.metadatas)
    /\ IF use_faiss
       THEN /\ \/ diskFaiss' = OkFile(index)
               \/ diskFaiss' \in AfterFailedWrite(diskFaiss)
            /\ vpc' = "add_save"
            /\ UNCHANGED <<diskNpy, lastOp, addArgs>>
       ELSE \/ /\ diskNpy' = OkFile(embeddings)
               /\ vpc' = "add_save"
               /\ UNCHANGED <<diskFaiss, lastOp, addArgs>>
            \/ /\ diskNpy' \in AfterFailedWrite(diskNpy)
               /\ vpc' = "idle"
               /\ lastOp' = "add_raised"
               /\ addArgs' = NoArgs
               /\ UNCHANGED diskFaiss
    /\ UNCHANGED <<faissAvailable, use_faiss, index, embeddings, metadata, diskMeta,
                   start_id, addI, pre, lastSearch, crashedAt, readerVars>>
    /\ UNCHANGED packVars

\* _save_metadata, line 124, and add's return.
SaveMetadata ==
    /\ vpc = "add_save"
    /\ \/ /\ diskMeta' = OkFile(MetadataDocument(metadata))
          /\ lastOp' = "add_returned"
       \/ /\ diskMeta' \in AfterFailedWrite(diskMeta)
          /\ lastOp' = "add_raised"
    /\ vpc' = "idle"
    /\ addArgs' = NoArgs
    /\ addI' = 1
    /\ UNCHANGED <<faissAvailable, use_faiss, index, embeddings, metadata, diskFaiss,
                   diskNpy, start_id, pre, lastSearch, crashedAt, readerVars>>
    /\ UNCHANGED packVars

\* The process dies: memory is lost, the files stay.  Dying inside a write
\* (torn) leaves that file partial.
Crash(torn) ==
    /\ vpc \in {"idle", "add_loop", "add_save"}
    /\ torn => vpc # "idle" /\ (vpc = "add_loop" => addI > Len(addArgs.metadatas))
    /\ diskFaiss' = IF torn /\ vpc = "add_loop" /\ use_faiss THEN CorruptFile ELSE diskFaiss
    /\ diskNpy' = IF torn /\ vpc = "add_loop" /\ ~use_faiss THEN CorruptFile ELSE diskNpy
    /\ diskMeta' = IF torn /\ vpc = "add_save" THEN CorruptFile ELSE diskMeta
    /\ vpc' = "down"
    /\ index' = <<>>
    /\ embeddings' = <<>>
    /\ metadata' = <<>>
    /\ addArgs' = NoArgs
    /\ start_id' = 0
    /\ addI' = 1
    /\ pre' = EmptySnapshot
    /\ lastOp' = "crash"
    /\ crashedAt' = IF vpc = "add_save" /\ ~torn /\ Len(Vectors) = Len(metadata)
                    THEN "between_writes" ELSE vpc
    /\ lastSearch' = NoSearch
    /\ UNCHANGED <<faissAvailable, use_faiss, readerVars>>
    /\ UNCHANGED packVars

\* ---------------------------------------------------- VectorStore.search
RECURSIVE DotFrom(_, _, _)
DotFrom(v, q, i) == IF i > Len(v) THEN 0 ELSE v[i] * q[i] + DotFrom(v, q, i + 1)

\* np.dot of one stored row with the query (line 138).
Dot(v, q) == DotFrom(v, q, 1)

\* sims of line 138: one score per stored row.
Sims(rows, q) == [i \in 1..Len(rows) |-> Dot(rows[i], q)]

IndexOrders(n) ==
    {p \in [1..n -> 0..(n - 1)] : \A i, j \in 1..n : i # j => p[i] # p[j]}

\* np.argsort(sims): the indices by ascending score.
ArgsortAsc(sims) ==
    {p \in IndexOrders(Len(sims)) :
        \A i \in 1..(Len(sims) - 1) : sims[p[i] + 1] <= sims[p[i + 1] + 1]}

\* np.argsort(-sims), line 139, as Python indices.  The default sort kind is
\* quicksort, which is not stable: any order of equal scores may come out.
ArgsortDesc(sims) ==
    {p \in IndexOrders(Len(sims)) :
        \A i \in 1..(Len(sims) - 1) : sims[p[i] + 1] >= sims[p[i + 1] + 1]}

\* index.search of an inner-product flat index, line 131: the k best rows,
\* best first, padded with -1 when the index holds fewer than k rows.
FaissIndices(sims, k) ==
    {[i \in 1..k |-> IF i <= Len(sims) THEN p[i] ELSE -1] : p \in ArgsortDesc(sims)}

\* Lines 143-148: the (score, record) pairs of the indices that have a record.
RECURSIVE Pairs(_, _, _, _)
Pairs(scores, indices, md, i) ==
    IF i > Len(indices) THEN <<>>
    ELSE IF indices[i] < 0 \/ indices[i] >= Len(md)
         THEN Pairs(scores, indices, md, i + 1)
         ELSE <<[score |-> scores[i], rec |-> md[indices[i] + 1]]>>
              \o Pairs(scores, indices, md, i + 1)

\* Lines 127-141: what search has after reading the rows.  early: the empty
\* NumPy matrix returned [] at line 136.
TopK(faiss, rows, q, k) ==
    LET sims == Sims(rows, q) IN
    IF faiss
    THEN {[early |-> FALSE,
           scores |-> [i \in 1..k |-> IF idx[i] < 0 THEN -1 ELSE sims[idx[i] + 1]],
           indices |-> idx] : idx \in FaissIndices(sims, k)}
    ELSE IF Len(rows) = 0
         THEN {[early |-> TRUE, scores |-> <<>>, indices |-> <<>>]}
         ELSE {[early |-> FALSE,
                scores |-> [i \in 1..Len(Take(p, k)) |-> sims[p[i] + 1]],
                indices |-> Take(p, k)] : p \in ArgsortDesc(sims)}

\* Every list search(q, k) may return on the given rows and records.
SearchResults(faiss, rows, md, q, k) ==
    {IF t.early THEN <<>> ELSE Pairs(t.scores, t.indices, md, 1) : t \in TopK(faiss, rows, q, k)}

\* A payload in the reverse of the order the store returned.
SearchPayloadReversed(results) ==
    [i \in 1..Len(results) |->
        LET r == results[Len(results) + 1 - i] IN
        [score |-> r.score, text |-> r.rec.text,
         citation |-> [filename |-> r.rec.filename, page_number |-> r.rec.page_number,
                       line_start |-> r.rec.line_start, line_end |-> r.rec.line_end]]]

\* SearchEngine.search, search.py lines 19-34: the payload of the results.
SearchPayload(results) ==
    [i \in 1..Len(results) |->
        [score |-> results[i].score, text |-> results[i].rec.text,
         citation |-> [filename |-> results[i].rec.filename,
                       page_number |-> results[i].rec.page_number,
                       line_start |-> results[i].rec.line_start,
                       line_end |-> results[i].rec.line_end]]]

\* VectorStore.search, and SearchEngine.search around it.
Search(q, k) ==
    /\ vpc = "idle"
    /\ \E res \in SearchResults(use_faiss, Vectors, metadata, q, k) :
          lastSearch' = [q |-> q, k |-> k, res |-> res, payload |-> SearchPayload(res)]
    /\ lastOp' = "search"
    /\ pre' = EmptySnapshot
    /\ UNCHANGED <<faissAvailable, use_faiss, index, embeddings, metadata, diskFaiss,
                   diskNpy, diskMeta, vpc, addArgs, start_id, addI, crashedAt, readerVars>>
    /\ UNCHANGED packVars

\* ------------------------------------------------- evidence collection
\* utils.embeddings.deterministic_embedding: a fixed vector per text, drawn
\* by a generator seeded with the text's digest.
deterministic_embedding(text) ==
    CASE text = "q1" -> <<1, 0>>
      [] text = "q2" -> <<1, 1>>
      [] OTHER -> <<0, 1>>

\* The source files present under data/uploads, data or the working directory.
SourcePresent(filename) == filename = "a.txt"
SourceBytes(filename) == <<97, 80, 10>>

\* _source_sha256, lines 74-82: the digest of the file found by name, else
\* the digest of the name itself.
_source_sha256(filename) ==
    IF SourcePresent(filename) THEN Sha256(SourceBytes(filename))
    ELSE Sha256(NameBytes(filename))

\* The EvidenceItem of lines 111-122, from a search hit.
ItemOfRecord(rec, id, now) ==
    [evidence_id |-> id, doc_id |-> rec.doc_id, filename |-> rec.filename,
     page |-> rec.page_number, start_line |-> rec.line_start, end_line |-> rec.line_end,
     excerpt |-> Take(rec.text, ExcerptMax),
     citation |-> [filename |-> rec.filename, page |-> rec.page_number,
                   lines |-> <<rec.line_start, rec.line_end>>],
     source_hash |-> _source_sha256(rec.filename), collected_at |-> now,
     redaction_applied |-> FALSE]

\* The EvidenceItem of lines 153-164, from a provenance citation.
ItemOfCitation(c, id, now) ==
    [evidence_id |-> id, doc_id |-> "", filename |-> c.filename,
     page |-> c.page, start_line |-> c.line, end_line |-> c.line,
     excerpt |-> Take(c.excerpt, ExcerptMax),
     citation |-> [filename |-> c.filename, page |-> c.page, lines |-> <<c.line>>],
     source_hash |-> _source_sha256(c.filename), collected_at |-> now,
     redaction_applied |-> FALSE]

\* _dedup_key, lines 85-86.
_dedup_key(rec) == <<rec.doc_id, rec.page_number, rec.line_start>>

\* The loop of lines 103-125 over the raw hits; ids are fresh, firstId on.
RECURSIVE SearchItemsFrom(_, _, _, _, _, _, _, _)
SearchItemsFrom(raw, i, items, seenKeys, max_items, doc_ids, firstId, now) ==
    IF i > Len(raw) THEN items
    ELSE LET rec == raw[i].rec
             k == _dedup_key(rec) IN
         IF k \in seenKeys
         THEN SearchItemsFrom(raw, i + 1, items, seenKeys, max_items, doc_ids, firstId, now)
         ELSE IF doc_ids # {} /\ rec.doc_id \notin doc_ids
         THEN SearchItemsFrom(raw, i + 1, items, seenKeys, max_items, doc_ids, firstId, now)
         ELSE LET more == Append(items, ItemOfRecord(rec, firstId + Len(items), now)) IN
              IF Len(more) >= max_items THEN more
              ELSE SearchItemsFrom(raw, i + 1, more, seenKeys \cup {k}, max_items, doc_ids,
                                   firstId, now)

\* The citations of the draft files in the order os.listdir gave the files.
RECURSIVE CitationsOf(_)
CitationsOf(draftFiles) ==
    IF draftFiles = <<>> THEN <<>>
    ELSE Head(draftFiles).provenance \o CitationsOf(Tail(draftFiles))

\* The loops of lines 134-168 over those citations.
RECURSIVE ProvenanceItemsFrom(_, _, _, _, _, _)
ProvenanceItemsFrom(cits, i, items, max_items, firstId, now) ==
    IF i > Len(cits) THEN items
    ELSE IF cits[i].filename = ""
         THEN ProvenanceItemsFrom(cits, i + 1, items, max_items, firstId, now)
         ELSE LET more == Append(items, ItemOfCitation(cits[i], firstId + Len(items), now)) IN
              IF Len(more) >= max_items THEN more
              ELSE ProvenanceItemsFrom(cits, i + 1, more, max_items, firstId, now)

\* Lines 305-309: the dict keyed by (filename, page, start_line), its values
\* in insertion order, cut to max_items.
RECURSIVE DedupFrom(_, _, _)
DedupFrom(evs, i, dedup) ==
    IF i > Len(evs) THEN dedup
    ELSE DedupFrom(evs, i + 1,
                   DictSet(dedup, <<evs[i].filename, evs[i].page,
                                    evs[i].start_line>>, evs[i]))

\* The candidates cut to max_items with no key compared.
CutOnly(evs, max_items) == Take(evs, max_items)

Deduplicate(evs, max_items) == Take(DictValues(DedupFrom(evs, 1, <<>>)), max_items)

\* The orders in which a listing (os.listdir, a set's iteration) may give
\* the members of a set.
Orderings(S) ==
    {p \in [1..Cardinality(S) -> S] : \A i, j \in 1..Cardinality(S) : i # j => p[i] # p[j]}

\* ------------------------------------------------- the files of a pack
RECURSIVE Flatten(_)
Flatten(seqs) == IF seqs = <<>> THEN <<>> ELSE Head(seqs) \o Flatten(Tail(seqs))

\* json.dump of the documents the build writes, as bytes.
DumpEvidenceItem(ev) ==
    <<ev.evidence_id, ev.page, ev.start_line, ev.end_line, ev.source_hash,
      ev.collected_at, IF ev.redaction_applied THEN 1 ELSE 0>>
    \o NameBytes(ev.doc_id) \o NameBytes(ev.filename) \o Utf8(ev.excerpt)

DumpRow(r) ==
    <<r.evidence_id, r.page, r.start_line, r.end_line, r.sha256, r.bytes,
      r.source_path.ord>> \o NameBytes(r.filename) \o NameBytes(r.source_path.base)

DumpRows(rows) == Flatten([i \in 1..Len(rows) |-> DumpRow(rows[i])])

DumpHashes(d) == Flatten([i \in 1..Len(d) |-> <<d[i].key, d[i].val>>])

DumpChain(c) ==
    <<c.pack_id, c.created_at, c.sha256_of_zip, Len(c.evidence_ids)>> \o c.evidence_ids
    \o NameBytes(c.query_or_car_id)

DumpLog(log) ==
    NameBytes(log.filename) \o <<log.page, log.regions_count>>
    \o Flatten([i \in 1..Len(log.matches) |->
                  Utf8(log.matches[i].pattern.lit) \o <<log.matches[i].count>>])

DumpIndex(ctx) ==
    <<ctx.pack_id, ctx.created_at>> \o NameBytes(ctx.query_or_car)
    \o Flatten([i \in 1..Len(ctx.evidence) |-> DumpEvidenceItem(ctx.evidence[i])])

\* The bytes of a file of the build directory, from what was written to it.
ContentBytes(dir, base, data) ==
    CASE dir = "evidence" -> data
      [] dir = "redactions" -> DumpLog(data)
      [] base = "manifest.json" -> DumpRows(data.rows)
      [] base = "manifest.csv" -> DumpRows(data)
      [] base = "hashes.json" -> DumpHashes(data)
      [] base = "chain_of_custody.json" -> DumpChain(data)
      [] base = "index.html" -> DumpIndex(data)
      [] base = "index.pdf" -> DumpIndex(data)
      [] OTHER -> data

\* The names a listing of the build directory may hold, as sorted() orders them.
RootNames ==
    <<"chain_of_custody.json", "hashes.json", "index.html", "index.pdf",
      "index.pdf.missing.txt", "manifest.csv", "manifest.json">>

DirCode(dir) ==
    CASE dir = "evidence" -> 1 [] dir = "redactions" -> 2 [] OTHER -> 0

RootCode(base) ==
    IF \E i \in 1..Len(RootNames) : RootNames[i] = base
    THEN CHOOSE i \in 1..Len(RootNames) : RootNames[i] = base
    ELSE 0

\* A dict's value for a key it holds, and whether it holds the key.
DictHas(d, key) == \E i \in 1..Len(d) : d[i].key = key
DictGet(d, key) == (CHOOSE e \in Range(d) : e.key = key).val

\* The root files in sorted(files) order, as archive members.
RootMembers(root) ==
    LET present == SelectSeq(RootNames, LAMBDA n : DictHas(root, n)) IN
    [i \in 1..Len(present) |->
        [dir |-> "", ord |-> 0, base |-> present[i],
         bytes |-> ContentBytes("", present[i], DictGet(root, present[i]).data)]]

\* The files of evidence/ or redactions/ in sorted(files) order: the names
\* start with the three-digit ordinal.
SubdirMembers(dir, d) ==
    [i \in 1..Len(d) |->
        LET e == CHOOSE e \in Range(d) :
                    Cardinality({f \in Range(d) : f.key.ord < e.key.ord}) = i - 1 IN
        [dir |-> dir, ord |-> e.key.ord, base |-> e.key.base,
         bytes |-> ContentBytes(dir, e.key.base, e.val.data)]]

\* _zip_pack, lines 259-269: the members of the archive.  os.walk gives the
\* build directory first and then its subdirectories in listing order.
ZipMembers(root, ev, red) ==
    {RootMembers(root) \o SubdirMembers(o[1], IF o[1] = "evidence" THEN ev ELSE red)
                       \o SubdirMembers(o[2], IF o[2] = "evidence" THEN ev ELSE red) :
        o \in Orderings({"evidence", "redactions"})}

\* The bytes of the archive file.
MemberBytes(m) ==
    <<DirCode(m.dir), m.ord, RootCode(m.base), Len(m.bytes)>> \o NameBytes(m.base) \o m.bytes

ZipBytes(members) == Flatten([i \in 1..Len(members) |-> MemberBytes(members[i])])

\* ------------------------------------------------------ build_audit_pack
\* os.path.basename of the file names of the model.
Basename(filename) == IF filename = "x/a.txt" THEN "a.txt" ELSE filename

\* The name f"{idx:03d}_{basename}" of lines 329 and 332, before its suffix.
EvidenceName(idx, ev) == [ord |-> idx, base |-> Basename(ev.filename)]

\* A start that allocates the pack id and the directories before it checks.
BuildStartAllocating(r) ==
    /\ bpc = "idle"
    /\ req' = r
    /\ pack_id' = pack_id + 1
    /\ buildDir' = TRUE
    /\ clock' = clock + 1
    /\ bpc' = IF r.car_id = "" /\ r.query = "" THEN "raised" ELSE "collect"
    /\ UNCHANGED <<storeVars, readerVars, packEnv, evidence, patterns, widx, evidence_files,
                   evDir, redDir, rootDir, chain, zipFile, result>>
    /\ failedAt' = IF bpc' = "raised" THEN bpc ELSE failedAt
    /\ UNCHANGED candidates

\* Lines 287-296: the arguments checked, the pack id drawn, the directories made.
BuildStart(r) ==
    /\ bpc = "idle"
    /\ req' = r
    /\ IF r.car_id = "" /\ r.query = ""
       THEN /\ bpc' = "raised"
            /\ UNCHANGED <<pack_id, buildDir, clock>>
       ELSE /\ pack_id' = pack_id + 1
            /\ buildDir' = TRUE
            /\ clock' = clock + 1
            /\ bpc' = "collect"
    /\ UNCHANGED <<storeVars, readerVars, packEnv, evidence, patterns, widx, evidence_files,
                   evDir, redDir, rootDir, chain, zipFile, result>>
    /\ failedAt' = IF bpc' = "raised" THEN bpc ELSE failedAt
    /\ UNCHANGED candidates

\* The hits of line 102, on the VectorStore that SearchEngine() constructs
\* from the storage directory.
RawHits(query, top_k) ==
    LET r == InitIndex(faissAvailable, diskFaiss, diskNpy) IN
    SearchResults(r.use_faiss, IF r.use_faiss THEN r.index ELSE r.embeddings,
                  LoadMetadata(diskMeta), deterministic_embedding(query), top_k)

\* Lines 312-315: the patterns of the configuration, or with a redaction
\* argument list(set(...)) of both lists, in the set's iteration order.
MergedPatterns(r) ==
    IF r.redaction.given
    THEN Orderings(Range(configPatterns) \cup Range(r.redaction.patterns))
    ELSE {configPatterns}

\* What lines 298-316 may leave for a call with arguments r at time now: the
\* two pools together, the evidence kept of them, the merged patterns.
EvidenceChoices(r, now) ==
    {LET prov == IF r.car_id # "" /\ r.include_forms
                 THEN ProvenanceItemsFrom(CitationsOf(listing), 1, <<>>, r.max_items, 1, now)
                 ELSE <<>>
         found == IF r.query # ""
                  THEN SearchItemsFrom(raw, 1, <<>>, {}, r.max_items, r.doc_ids,
                                       Len(prov) + 1, now)
                  ELSE <<>> IN
     [candidates |-> prov \o found,
      kept |-> Deduplicate(prov \o found, r.max_items),
      merged |-> merged] :
        listing \in Orderings(drafts), merged \in MergedPatterns(r),
        raw \in (IF r.query # "" THEN RawHits(r.query, r.max_items * 4) ELSE {<<>>})}

\* Lines 298-316.
CollectEvidence ==
    /\ bpc = "collect"
    /\ \/ /\ req.query # "" => ~InitIndex(faissAvailable, diskFaiss, diskNpy).raised
          /\ \E c \in EvidenceChoices(req, clock) :
                /\ evidence' = c.kept
                /\ candidates' = c.candidates
                /\ patterns' = c.merged
                /\ bpc' = IF c.kept = <<>> THEN "index" ELSE "write"
          /\ widx' = 1
       \/ /\ bpc' = "raised"
          /\ UNCHANGED <<evidence, patterns, widx, candidates>>
    /\ failedAt' = IF bpc' = "raised" THEN bpc ELSE failedAt
    /\ UNCHANGED <<storeVars, readerVars, packEnv, req, pack_id, buildDir, evidence_files,
                   evDir, redDir, rootDir, chain, zipFile, result, clock>>

\* A flag set wherever the redaction step ran.
AppliedWhereRun(matches) == TRUE

\* any(matches.values()) of line 325.
RedactionApplied(matches) == \E i \in 1..Len(matches) : matches[i].val # 0

\* One turn of the loop of lines 320-334: the excerpt redacted, the excerpt
\* file and the redaction log written.
WriteEvidence ==
    /\ bpc = "write"
    /\ LET ev == evidence[widx]
           red == IF patterns # <<>> THEN ApplyRedactionsText(ev.excerpt, patterns)
                  ELSE [text |-> ev.excerpt, matches |-> <<>>]
           ev2 == IF patterns # <<>>
                  THEN [ev EXCEPT !.redaction_applied = RedactionApplied(red.matches)]
                  ELSE ev
           log == [filename |-> ev.filename, page |-> ev.page,
                   matches |-> [i \in 1..Len(red.matches) |->
                                   [pattern |-> red.matches[i].key,
                                    count |-> red.matches[i].val]],
                   regions_count |-> 0]
           name == EvidenceName(widx, ev) IN
       \/ /\ evDir' = DictSet(evDir, name, OkFile(Utf8(red.text)))
          /\ redDir' = DictSet(redDir, name, OkFile(log))
          /\ evidence' = [evidence EXCEPT ![widx] = ev2]
          /\ evidence_files' = Append(evidence_files, [path |-> name, ev |-> ev2])
          /\ widx' = widx + 1
          /\ bpc' = IF widx = Len(evidence) THEN "index" ELSE "write"
       \/ /\ evDir' \in {evDir, DictSet(evDir, name, CorruptFile)}
          /\ bpc' = "raised"
          /\ UNCHANGED <<redDir, evidence, evidence_files, widx>>
    /\ UNCHANGED <<storeVars, readerVars, packEnv, req, pack_id, buildDir, patterns, rootDir,
                   chain, zipFile, result, clock>>
    /\ failedAt' = IF bpc' = "raised" THEN bpc ELSE failedAt
    /\ UNCHANGED candidates

\* What the loop of lines 320-334 writes for the evidence kept and the merged
\* patterns: per item the file name, the excerpt file's text, the log's matches.
PackFiles(kept, merged) ==
    [i \in 1..Len(kept) |->
        LET red == IF merged # <<>> THEN ApplyRedactionsText(kept[i].excerpt, merged)
                   ELSE [text |-> kept[i].excerpt, matches |-> <<>>] IN
        [name |-> EvidenceName(i, kept[i]), filename |-> kept[i].filename,
         page |-> kept[i].page, text |-> red.text, matches |-> red.matches]]

\* The member names of an archive, in the archive's order.
MemberNames(members) ==
    [i \in 1..Len(members) |->
        [dir |-> members[i].dir, ord |-> members[i].ord, base |-> members[i].base]]

\* What index.pdf.missing.txt holds.
MissingNote == <<110, 111>>

\* Lines 337-348: index.html from its template, then index.pdf, or the note
\* that takes its place when reportlab cannot be imported.
WriteIndex ==
    /\ bpc = "index"
    /\ LET ctx == [pack_id |-> pack_id, created_by |-> "dev", created_at |-> clock,
                   query_or_car |-> IF req.car_id # "" THEN req.car_id ELSE req.query,
                   filters |-> req.doc_ids, evidence |-> evidence] IN
       \/ /\ \E reportlab \in BOOLEAN :
                rootDir' = DictSet(DictSet(rootDir, "index.html", OkFile(ctx)),
                                   IF reportlab THEN "index.pdf" ELSE "index.pdf.missing.txt",
                                   IF reportlab THEN OkFile(ctx) ELSE OkFile(MissingNote))
          /\ bpc' = "manifest"
       \/ /\ bpc' = "raised"
          /\ UNCHANGED rootDir
    /\ UNCHANGED <<storeVars, readerVars, packEnv, req, pack_id, buildDir, evidence, patterns,
                   widx, evidence_files, evDir, redDir, chain, zipFile, result, clock>>
    /\ failedAt' = IF bpc' = "raised" THEN bpc ELSE failedAt
    /\ UNCHANGED candidates

\* The bytes read back from an excerpt file (lines 231-232).
ReadBytes(dir, path) == DictGet(dir, path).data

\* A row whose digest and size are those of the excerpt held in memory.
ManifestRowFromExcerpt(dir, f) ==
    [evidence_id |-> f.ev.evidence_id, filename |-> f.ev.filename, page |-> f.ev.page,
     start_line |-> f.ev.start_line, end_line |-> f.ev.end_line,
     sha256 |-> Sha256(Utf8(f.ev.excerpt)), bytes |-> Len(f.ev.excerpt),
     citation |-> f.ev.citation, source_path |-> f.path]

\* The row of lines 233-244 for one (path, ev) pair.
ManifestRow(dir, f) ==
    [evidence_id |-> f.ev.evidence_id, filename |-> f.ev.filename, page |-> f.ev.page,
     start_line |-> f.ev.start_line, end_line |-> f.ev.end_line,
     sha256 |-> Sha256(ReadBytes(dir, f.path)), bytes |-> Len(ReadBytes(dir, f.path)),
     citation |-> f.ev.citation, source_path |-> f.path]

ManifestRows(dir, files) == [i \in 1..Len(files) |-> ManifestRow(dir, files[i])]

\* The dict comprehension of line 256.
RECURSIVE HashesFrom(_, _, _)
HashesFrom(rows, i, d) ==
    IF i > Len(rows) THEN d
    ELSE HashesFrom(rows, i + 1, DictSet(d, rows[i].evidence_id, rows[i].sha256))

\* A manifest step that removes the build directory when it fails.
WriteManifestOrRemove ==
    /\ bpc = "manifest"
    /\ \/ /\ \A i \in 1..Len(evidence_files) :
                /\ DictHas(evDir, evidence_files[i].path)
                /\ DictGet(evDir, evidence_files[i].path).st = "ok"
          /\ LET rows == ManifestRows(evDir, evidence_files) IN
             rootDir' = DictSet(DictSet(DictSet(rootDir,
                            "manifest.json", OkFile([rows |-> rows])),
                            "manifest.csv", OkFile(rows)),
                            "hashes.json", OkFile(HashesFrom(rows, 1, <<>>)))
          /\ bpc' = "chain"
          /\ UNCHANGED buildDir
       \/ /\ bpc' = "raised"
          /\ buildDir' = FALSE
          /\ rootDir' \in {rootDir, DictSet(rootDir, "manifest.json", CorruptFile)}
    /\ UNCHANGED <<storeVars, readerVars, packEnv, req, pack_id, evidence, patterns,
                   widx, evidence_files, evDir, redDir, chain, zipFile, result, clock>>
    /\ failedAt' = IF bpc' = "raised" THEN bpc ELSE failedAt
    /\ UNCHANGED candidates

\* _write_manifest, lines 227-256.
WriteManifest ==
    /\ bpc = "manifest"
    /\ \/ /\ \A i \in 1..Len(evidence_files) :
                /\ DictHas(evDir, evidence_files[i].path)
                /\ DictGet(evDir, evidence_files[i].path).st = "ok"
          /\ LET rows == ManifestRows(evDir, evidence_files) IN
             rootDir' = DictSet(DictSet(DictSet(rootDir,
                            "manifest.json", OkFile([rows |-> rows])),
                            "manifest.csv", OkFile(rows)),
                            "hashes.json", OkFile(HashesFrom(rows, 1, <<>>)))
          /\ bpc' = "chain"
       \/ /\ bpc' = "raised"
          /\ rootDir' \in {rootDir, DictSet(rootDir, "manifest.json", CorruptFile)}
    /\ UNCHANGED <<storeVars, readerVars, packEnv, req, pack_id, buildDir, evidence, patterns,
                   widx, evidence_files, evDir, redDir, chain, zipFile, result, clock>>
    /\ failedAt' = IF bpc' = "raised" THEN bpc ELSE failedAt
    /\ UNCHANGED candidates

\* Lines 354-371: the chain-of-custody record with no archive hash yet.
\* __import__("reportlab") at line 364 raises where reportlab is missing.
DraftChain ==
    /\ bpc = "chain"
    /\ \/ /\ ~DictHas(rootDir, "index.pdf.missing.txt")
          /\ LET c == [pack_id |-> pack_id, created_by |-> "dev", created_at |-> clock,
                       query_or_car_id |-> IF req.car_id # "" THEN req.car_id ELSE req.query,
                       filters |-> req.doc_ids,
                       evidence_ids |-> [i \in 1..Len(evidence) |-> evidence[i].evidence_id],
                       redaction_mode |-> req.redaction.mode,
                       sha256_of_zip |-> NoDigest] IN
             /\ chain' = c
             /\ rootDir' = DictSet(rootDir, "chain_of_custody.json", OkFile(c))
          /\ bpc' = "zip"
       \/ /\ bpc' = "raised"
          /\ UNCHANGED <<chain, rootDir>>
    /\ UNCHANGED <<storeVars, readerVars, packEnv, req, pack_id, buildDir, evidence, patterns,
                   widx, evidence_files, evDir, redDir, zipFile, result, clock>>
    /\ failedAt' = IF bpc' = "raised" THEN bpc ELSE failedAt
    /\ UNCHANGED candidates

\* An archive step whose failure is swallowed.
ZipPackSwallowed ==
    /\ bpc = "zip"
    /\ zipFile' \in {OkFile(m) : m \in ZipMembers(rootDir, evDir, redDir)} \cup {AbsentFile}
    /\ bpc' = "finalize"
    /\ UNCHANGED <<storeVars, readerVars, packEnv, req, pack_id, buildDir, evidence, patterns,
                   widx, evidence_files, evDir, redDir, rootDir, chain, result, clock>>
    /\ failedAt' = IF bpc' = "raised" THEN bpc ELSE failedAt
    /\ UNCHANGED candidates

\* An archive written to one path for all packs: it replaces the archive of
\* the other build.
ZipPackOnePath ==
    /\ bpc = "zip"
    /\ \/ /\ zipFile' \in {OkFile(m) : m \in ZipMembers(rootDir, evDir, redDir)}
          /\ bpc' = "finalize"
       \/ /\ zipFile' \in {AbsentFile, CorruptFile}
          /\ bpc' = "raised"
    /\ other' = [other EXCEPT !.zipFile = zipFile']
    /\ UNCHANGED <<storeVars, readerVars, drafts, configPatterns, redactCall, req, pack_id,
                   buildDir, evidence, patterns, widx, evidence_files, evDir, redDir, rootDir,
                   chain, result, clock>>
    /\ failedAt' = IF bpc' = "raised" THEN bpc ELSE failedAt
    /\ UNCHANGED candidates

\* _zip_pack at line 374.  A failure leaves no archive or a partial one.
ZipPack ==
    /\ bpc = "zip"
    /\ \/ /\ zipFile' \in {OkFile(m) : m \in ZipMembers(rootDir, evDir, redDir)}
          /\ bpc' = "finalize"
       \/ /\ zipFile' \in {AbsentFile, CorruptFile}
          /\ bpc' = "raised"
    /\ UNCHANGED <<storeVars, readerVars, packEnv, req, pack_id, buildDir, evidence, patterns,
                   widx, evidence_files, evDir, redDir, rootDir, chain, result, clock>>
    /\ failedAt' = IF bpc' = "raised" THEN bpc ELSE failedAt
    /\ UNCHANGED candidates

\* The digest of the archive's first member alone.
FirstMemberDigest(zf) == Sha256(ZipBytes(Take(zf.data, 1)))

\* The digest line 377 takes of the archive.
ArchiveDigest(zf) == Sha256(ZipBytes(zf.data))

\* A finalization that also archives the build directory again.
FinalizeChainRezipping ==
    /\ bpc = "finalize"
    /\ chain' = [chain EXCEPT !.sha256_of_zip = ArchiveDigest(zipFile)]
    /\ \/ /\ rootDir' = DictSet(rootDir, "chain_of_custody.json", OkFile(chain'))
          /\ zipFile' \in {OkFile(m) : m \in ZipMembers(rootDir', evDir, redDir)}
          /\ bpc' = "return"
       \/ /\ rootDir' \in {rootDir, DictSet(rootDir, "chain_of_custody.json", CorruptFile)}
          /\ bpc' = "raised"
          /\ UNCHANGED zipFile
    /\ UNCHANGED <<storeVars, readerVars, packEnv, req, pack_id, buildDir, evidence, patterns,
                   widx, evidence_files, evDir, redDir, result, clock>>
    /\ failedAt' = IF bpc' = "raised" THEN bpc ELSE failedAt
    /\ UNCHANGED candidates

\* Lines 376-380: the archive hashed, the record rewritten with the hash.
FinalizeChain ==
    /\ bpc = "finalize"
    /\ chain' = [chain EXCEPT !.sha256_of_zip = ArchiveDigest(zipFile)]
    /\ \/ /\ rootDir' = DictSet(rootDir, "chain_of_custody.json", OkFile(chain'))
          /\ bpc' = "return"
       \/ /\ rootDir' \in {rootDir, DictSet(rootDir, "chain_of_custody.json", CorruptFile)}
          /\ bpc' = "raised"
    /\ UNCHANGED <<storeVars, readerVars, packEnv, req, pack_id, buildDir, evidence, patterns,
                   widx, evidence_files, evDir, redDir, zipFile, result, clock>>
    /\ failedAt' = IF bpc' = "raised" THEN bpc ELSE failedAt
    /\ UNCHANGED candidates

\* Lines 382-391.
BuildReturn ==
    /\ bpc = "return"
    /\ result' = [pack_id |-> pack_id, items |-> Len(evidence)]
    /\ bpc' = "returned"
    /\ UNCHANGED <<storeVars, readerVars, packEnv, req, pack_id, buildDir, evidence, patterns,
                   widx, evidence_files, evDir, redDir, rootDir, chain, zipFile, clock>>
    /\ failedAt' = IF bpc' = "raised" THEN bpc ELSE failedAt
    /\ UNCHANGED candidates

\* download_pack, routes/audit.py lines 56-61, for the pack of the build:
\* the archive file if a file is at its path, else 404.
download_pack == IF zipFile.st = "absent" THEN "not_found" ELSE "file"

\* ----------------------------------------------------- the build's inputs
Citation(f, p, l, t) == [filename |-> f, page |-> p, line |-> l, excerpt |-> t]

DraftOptions ==
    {{},
     {[car_id |-> "c1", provenance |-> <<Citation("b.txt", 1, 2, <<"P", "a">>)>>],
      [car_id |-> "c2", provenance |-> <<Citation("", 1, 1, <<"a">>),
                                         Citation("x/a.txt", 1, 1, <<"a", "pm">>)>>]}}

ConfigOptions == {<<>>, <<Literal(<<"P">>)>>}

\* The indexed fragments: [vec, meta] pairs, ingested in this order.
Fragment(v, m) == [vec |-> v, meta |-> m]

IndexOptions ==
    LET f1 == Fragment(<<1, 0>>, Meta("d1", "a.txt", 1, 1, <<"a", "P">>))
        f2 == Fragment(<<0, 1>>, Meta("d2", "b.txt", 1, 2, <<"P", "pm">>))
        f3 == Fragment(<<1, 0>>, Meta("d3", "a.txt", 1, 1, <<"P">>)) IN
    {<<>>, <<f1, f2, f3>>}

RedactionOptions ==
    {[given |-> FALSE, patterns |-> <<>>, mode |-> "overlay"],
     [given |-> TRUE, patterns |-> <<Literal(<<"P">>), Literal(<<"a">>)>>, mode |-> "overlay"],
     [given |-> TRUE, patterns |-> <<BadPattern>>, mode |-> "overlay"]}

\* The calls of build_audit_pack; the arguments that a call does not read
\* (include_forms without a car_id, doc_ids without a query) at one value.
Requests ==
    {r \in [car_id : {"", "c1"}, query : {"", "q1", "q2"}, doc_ids : {{}, {"d1"}},
            include_forms : BOOLEAN, redaction : RedactionOptions,
            max_items : 0..MaxItems] :
        /\ r.car_id = "" => r.include_forms
        /\ r.query = "" => r.doc_ids = {}}

\* A file holding rows, as a store that added them wrote it.
StoredFile(rows) == IF rows = <<>> THEN AbsentFile ELSE OkFile(rows)

\* A process whose store holds one of the indexes, persisted, and that has
\* been asked for no pack yet.
InitPack ==
    /\ faissAvailable \in BOOLEAN
    /\ use_faiss = faissAvailable
    /\ \E opt \in IndexOptions :
          LET rows == [i \in 1..Len(opt) |-> opt[i].vec]
              md == [i \in 1..Len(opt) |-> MakeRecord(0, i, opt[i].meta)] IN
          /\ index = IF faissAvailable THEN rows ELSE <<>>
          /\ embeddings = IF faissAvailable THEN <<>> ELSE rows
          /\ metadata = md
          /\ diskFaiss = IF faissAvailable THEN StoredFile(rows) ELSE AbsentFile
          /\ diskNpy = IF faissAvailable THEN AbsentFile ELSE StoredFile(rows)
          /\ diskMeta = IF md = <<>> THEN AbsentFile ELSE OkFile(MetadataDocument(md))
    /\ StoreIdle
    /\ drafts \in DraftOptions
    /\ configPatterns \in ConfigOptions
    /\ redactCall = NoRedactCall
    /\ PackIdle

NextPack ==
    \/ \E r \in Requests : BuildStart(r)
    \/ CollectEvidence
    \/ WriteEvidence
    \/ WriteIndex
    \/ WriteManifest
    \/ DraftChain
    \/ ZipPack
    \/ FinalizeChain
    \/ BuildReturn

SpecPack == InitPack /\ [][NextPack]_vars

\* ------------------------------------------------ two builds, interleaved
\* The locals and files of the build that is taking steps.
ThisBuild ==
    [bpc |-> bpc, req |-> req, pack_id |-> pack_id, buildDir |-> buildDir,
     evidence |-> evidence, patterns |-> patterns, widx |-> widx,
     evidence_files |-> evidence_files, evDir |-> evDir, redDir |-> redDir,
     rootDir |-> rootDir, chain |-> chain, zipFile |-> zipFile, result |-> result,
     candidates |-> candidates, failedAt |-> failedAt]

\* The scheduler gives the next step to the other call (two requests of
\* POST /audit/pack served at once).  uuid4 at line 291 never repeats: a call
\* that has not drawn its pack id yet draws one beyond those drawn so far.
Switch ==
    /\ bpc' = other.bpc
    /\ req' = other.req
    /\ pack_id' = IF other.bpc = "idle" /\ other.pack_id < pack_id THEN pack_id
                  ELSE other.pack_id
    /\ buildDir' = other.buildDir
    /\ evidence' = other.evidence
    /\ patterns' = other.patterns
    /\ widx' = other.widx
    /\ evidence_files' = other.evidence_files
    /\ evDir' = other.evDir
    /\ redDir' = other.redDir
    /\ rootDir' = other.rootDir
    /\ chain' = other.chain
    /\ zipFile' = other.zipFile
    /\ result' = other.result
    /\ candidates' = other.candidates
    /\ failedAt' = other.failedAt
    /\ other' = ThisBuild
    /\ UNCHANGED <<storeVars, readerVars, drafts, configPatterns, redactCall, clock>>

\* The two calls served at once: one by case id with redaction patterns, one
\* by query.
TwoRequests ==
    {r \in Requests :
        /\ r.max_items = MaxItems
        /\ r.doc_ids = {}
        /\ \/ r.car_id = "c1" /\ r.query = "" /\ r.include_forms /\ r.redaction.given
                /\ r.redaction.patterns # <<BadPattern>>
           \/ r.car_id = "" /\ r.query = "q1" /\ ~r.redaction.given}

\* A process whose store holds the fragments (NumPy backend), with drafts on
\* disk, asked for no pack yet.
InitTwo ==
    /\ InitPack
    /\ ~faissAvailable
    /\ metadata # <<>>
    /\ drafts # {}
    /\ configPatterns = <<>>

NextTwo ==
    \/ \E r \in TwoRequests : BuildStart(r)
    \/ CollectEvidence
    \/ WriteEvidence
    \/ WriteIndex
    \/ WriteManifest
    \/ DraftChain
    \/ ZipPack
    \/ FinalizeChain
    \/ BuildReturn
    \/ Switch

SpecTwo == InitTwo /\ [][NextTwo]_vars

\* ------------------------------------------ the redaction step by itself
PatternPool ==
    {Literal(<<"P">>), Literal(<<"a">>), Literal(<<"P", "a">>), Literal(<<"blk">>),
     BadPattern}

\* A process about to call _apply_redactions_text(content, patterns).
InitRedact ==
    /\ faissAvailable = FALSE
    /\ use_faiss = FALSE
    /\ index = <<>>
    /\ embeddings = <<>>
    /\ metadata = <<>>
    /\ diskFaiss = AbsentFile
    /\ diskNpy = AbsentFile
    /\ diskMeta = AbsentFile
    /\ StoreIdle
    /\ drafts = {}
    /\ configPatterns = <<>>
    /\ PackIdle
    /\ redactCall \in
          {[NoRedactCall EXCEPT !.content = c, !.pats = ps] :
              c \in SeqsUpTo(Chars, 0, MaxText),
              ps \in SeqsUpTo(PatternPool, 0, MaxPatterns)}

\* _apply_redactions_text, lines 171-182, called and returned.
ApplyRedactions ==
    /\ ~redactCall.done
    /\ LET r == ApplyRedactionsText(redactCall.content, redactCall.pats) IN
       redactCall' = [redactCall EXCEPT !.done = TRUE, !.text = r.text,
                                        !.matches = r.matches]
    /\ UNCHANGED <<storeVars, readerVars, drafts, configPatterns, other, bpc, req, pack_id,
                   buildDir, evidence, patterns, widx, evidence_files, evDir, redDir,
                   rootDir, chain, zipFile, result, clock, packTrace>>

NextRedact == ApplyRedactions

SpecRedact == InitRedact /\ [][NextRedact]_vars

\* ------------------------------------------- search running beside an add
\* The same search as a second thread of the process (the web server runs
\* /search and /upload handlers on different threads; nothing in VectorStore
\* locks).  SearchBegin is lines 127-141, which read the rows; SearchEnd is
\* lines 143-148, which read the metadata list.
SearchBegin(q, k) ==
    /\ vpc # "down"
    /\ reader.pc = "idle"
    /\ \E t \in TopK(use_faiss, Vectors, q, k) :
          IF t.early
          THEN /\ lastSearch' = [q |-> q, k |-> k, res |-> <<>>, payload |-> <<>>]
               /\ seen' = [nvec |-> 0, nmeta |-> 0]
               /\ UNCHANGED reader
          ELSE /\ reader' = [pc |-> "zip", q |-> q, k |-> k, scores |-> t.scores,
                            indices |-> t.indices, nvec |-> Len(Vectors)]
               /\ UNCHANGED <<lastSearch, seen>>
    /\ linear' = IF vpc = "idle"
                 THEN {<<Vectors, metadata>>}
                 ELSE {<<IF use_faiss THEN pre.index ELSE pre.embeddings, pre.metadata>>,
                       <<Vectors,
                         pre.metadata \o [i \in 1..Len(addArgs.metadatas) |->
                             MakeRecord(Len(pre.metadata), i, addArgs.metadatas[i])]>>}
    /\ UNCHANGED <<faissAvailable, use_faiss, index, embeddings, metadata, diskFaiss,
                   diskNpy, diskMeta, vpc, addArgs, start_id, addI, pre, lastOp, crashedAt,
                   peer>>
    /\ UNCHANGED packVars

SearchEnd ==
    /\ reader.pc = "zip"
    /\ lastSearch' = [q |-> reader.q, k |-> reader.k,
                      res |-> Pairs(reader.scores, reader.indices, metadata, 1),
                      payload |-> SearchPayload(Pairs(reader.scores, reader.indices,
                                                      metadata, 1))]
    /\ seen' = [nvec |-> reader.nvec, nmeta |-> Len(metadata)]
    /\ reader' = [IdleReader EXCEPT !.pc = "done"]
    /\ UNCHANGED <<faissAvailable, use_faiss, index, embeddings, metadata, diskFaiss,
                   diskNpy, diskMeta, vpc, addArgs, start_id, addI, pre, lastOp, crashedAt,
                   linear, peer>>
    /\ UNCHANGED packVars

\* The reader is free for its next search.
SearchReturn ==
    /\ reader.pc = "done"
    /\ reader' = IdleReader
    /\ lastSearch' = NoSearch
    /\ linear' = {}
    /\ UNCHANGED <<faissAvailable, use_faiss, index, embeddings, metadata, diskFaiss,
                   diskNpy, diskMeta, vpc, addArgs, start_id, addI, pre, lastOp, crashedAt,
                   seen, peer>>
    /\ UNCHANGED packVars

\* The well-formed batches: as many dicts as rows, every dict convertible.
GoodMetaLists(n) == {ms \in MetaLists : Len(ms) = n /\ \A i \in 1..n : ms[i].page_number # BadInt}

Next ==
    \/ Construct
    \/ \E vs \in Batches, ms \in MetaLists : AddCall(vs, ms)
    \/ AddMeta
    \/ PersistIndex
    \/ SaveMetadata
    \/ \E torn \in BOOLEAN : Crash(torn)
    \/ \E q \in QueryPool, k \in 0..MaxK : Search(q, k)

Spec == Init /\ [][Next]_vars

\* One process, its adds well formed, with searches on a second thread.
NextConc ==
    \/ \E vs \in Batches : \E ms \in GoodMetaLists(Len(vs)) : AddCall(vs, ms)
    \/ AddMeta
    \/ PersistIndex
    \/ SaveMetadata
    \/ \E q \in QueryPool, k \in 0..MaxK : SearchBegin(q, k)
    \/ SearchEnd
    \/ SearchReturn

SpecConc == Init /\ [][NextConc]_vars

\* --------------------------------- two objects on one storage directory
\* main.py lines 32-33 construct an Ingestor and a SearchEngine, each with a
\* VectorStore of its own on "storage"; compare_documents (compare.py line
\* 75) and others construct more.  The variables of the store are the
\* ingestor's object, peer is another one.
\* VectorStore.__init__, lines 34-48, for the second object.
PeerConstruct(owner) ==
    /\ vpc = "idle"
    /\ LET r == InitIndex(faissAvailable, diskFaiss, diskNpy) IN
       peer' = IF r.raised
               THEN [NoPeer EXCEPT !.op = "construct_raised"]
               ELSE [up |-> TRUE, owner |-> owner, use_faiss |-> r.use_faiss,
                     rows |-> IF r.use_faiss THEN r.index ELSE r.embeddings,
                     metadata |-> LoadMetadata(diskMeta), op |-> "construct", res |-> <<>>]
    /\ UNCHANGED <<storeVars, reader, seen, linear, packVars>>

\* VectorStore.add, lines 99-124, on the second object when an Ingestor owns
\* it (a SearchEngine never adds), from call to return:
\* the rows and records appended in memory, then the two files written from
\* memory.  (Failing writes are followed on the first object's add.)
PeerAdd(vs, ms) ==
    /\ vpc = "idle"
    /\ peer.up
    /\ peer.owner = "Ingestor"
    /\ Len(vs[1]) = Dim
    /\ Len(peer.rows) + Len(vs) <= MaxVectors
    /\ Len(peer.metadata) + Len(ms) <= MaxRecords
    /\ LET rows == IF peer.use_faiss THEN peer.rows \o vs ELSE AppendRows(peer.rows, vs)
           md == peer.metadata \o [i \in 1..Len(ms) |->
                                     MakeRecord(Len(peer.metadata), i, ms[i])] IN
       /\ diskFaiss' = IF peer.use_faiss THEN OkFile(rows) ELSE diskFaiss
       /\ diskNpy' = IF peer.use_faiss THEN diskNpy ELSE OkFile(rows)
       /\ diskMeta' = OkFile(MetadataDocument(md))
       /\ peer' = [peer EXCEPT !.rows = rows, !.metadata = md, !.res = <<>>,
                               !.op = "add_returned"]
    /\ UNCHANGED <<faissAvailable, use_faiss, index, embeddings, metadata, vpc, addArgs,
                   start_id, addI, pre, lastOp, lastSearch, crashedAt>>
    /\ UNCHANGED <<reader, seen, linear, packVars>>

\* SearchEngine.search on the second object.
PeerSearch(q, k) ==
    /\ vpc = "idle"
    /\ peer.up
    /\ peer.owner = "SearchEngine"
    /\ \E res \in SearchResults(peer.use_faiss, peer.rows, peer.metadata, q, k) :
          peer' = [peer EXCEPT !.op = "search", !.res = SearchPayload(res)]
    /\ UNCHANGED <<storeVars, reader, seen, linear, packVars>>

\* The process after main.py's import: both objects constructed on an empty
\* storage directory.
InitShared ==
    /\ faissAvailable \in BOOLEAN
    /\ use_faiss = faissAvailable
    /\ index = <<>>
    /\ embeddings = <<>>
    /\ metadata = <<>>
    /\ diskFaiss = AbsentFile
    /\ diskNpy = AbsentFile
    /\ diskMeta = AbsentFile
    /\ vpc = "idle"
    /\ addArgs = NoArgs
    /\ start_id = 0
    /\ addI = 1
    /\ pre = EmptySnapshot
    /\ lastOp = "none"
    /\ lastSearch = NoSearch
    /\ crashedAt = "none"
    /\ reader = IdleReader
    /\ seen = [nvec |-> 0, nmeta |-> 0]
    /\ linear = {}
    /\ peer = [NoPeer EXCEPT !.up = TRUE, !.owner = "SearchEngine",
                             !.use_faiss = faissAvailable, !.op = "construct"]
    /\ drafts = {}
    /\ configPatterns = <<>>
    /\ redactCall = NoRedactCall
    /\ PackIdle

\* The uploads of the shared process: one chunk each, with its embedding.
Uploads ==
    {[vs |-> <<<<1, 0>>>>, ms |-> <<ChunkMeta("d1", "a.txt", 1, ChunkText(UploadedPage, ChunkTokens)[1])>>],
     [vs |-> <<<<1, 1>>>>, ms |-> <<ChunkMeta("d1", "a.txt", 1, ChunkText(UploadedPage, ChunkTokens)[2])>>]}

NextShared ==
    \/ \E u \in Uploads : AddCall(u.vs, u.ms)
    \/ AddMeta
    \/ PersistIndex
    \/ SaveMetadata
    \/ \E owner \in {"SearchEngine", "Ingestor"} : PeerConstruct(owner)
    \/ \E u \in Uploads : PeerAdd(u.vs, u.ms)
    \/ \E q \in QueryPool, k \in 1..MaxK : PeerSearch(q, k)

SpecShared == InitShared /\ [][NextShared]_vars

\* ================================================================ claims
\* The record the store holds for Python index idx, and the row.
RowOf(id) == Vectors[id + 1]

\* C4: whenever no add is running (after construction and after every add,
\* returned or raised) the store holds as many vectors as metadata records.
C4_CountsAgree == vpc = "idle" => Len(Vectors) = Len(metadata)

\* C5: an add that raised left the vectors, the metadata list and the three
\* files exactly as they were when it was called.
C5_AddAllOrNothing == lastOp = "add_raised" => Snapshot = pre

\* C6: once add has returned, a fresh VectorStore on the same storage root
\* loads the vectors and records the adding instance holds, on the same backend.
C6_FreshLoadAgrees ==
    lastOp = "add_returned" =>
        LET r == InitIndex(faissAvailable, diskFaiss, diskNpy) IN
        /\ ~r.raised
        /\ r.use_faiss = use_faiss
        /\ r.index = index
        /\ r.embeddings = embeddings
        /\ LoadMetadata(diskMeta) = metadata

\* C7: a store constructed after a crash between add's two writes (line 123
\* done, line 124 not) holds as many vectors as metadata records.
C7_LoadReconciles ==
    (lastOp = "construct" /\ crashedAt = "between_writes") => Len(Vectors) = Len(metadata)

\* C8: a search that ran beside adds read as many rows as records, and
\* returned what a search of the store between two adds returns.
C8_SearchSeesWholeAdds ==
    reader.pc = "done" =>
        /\ seen.nvec = seen.nmeta
        /\ \E b \in linear :
              lastSearch.res \in SearchResults(use_faiss, b[1], b[2], lastSearch.q, lastSearch.k)

\* The chain-of-custody record as the build directory holds it.
ChainFile ==
    IF DictHas(rootDir, "chain_of_custody.json")
    THEN DictGet(rootDir, "chain_of_custody.json")
    ELSE AbsentFile

ChainHasHash == ChainFile.st = "ok" /\ ChainFile.data.sha256_of_zip # NoDigest

\* C1: the archive hash of the persisted chain-of-custody record is, whenever
\* it is set, the digest of the bytes of the archive file on disk, and it is
\* set once build_audit_pack has returned.
C1_ChainHashIsArchiveDigest ==
    /\ ChainHasHash =>
          /\ zipFile.st = "ok"
          /\ ChainFile.data.sha256_of_zip = Sha256(ZipBytes(zipFile.data))
    /\ bpc = "returned" => ChainHasHash

\* C1's case: a build that returned a pack of two evidence files.
C1_Witness ==
    /\ bpc = "returned"
    /\ Len(evDir) = 2
    /\ ChainFile.data.sha256_of_zip = Sha256(ZipBytes(zipFile.data))

\* C2: a build that returned left the archive and a persisted record with its
\* pack id and an archive hash; a build that raised left no archive or a
\* record without the hash.
C2_ReturnIffArchiveAndHash ==
    /\ bpc = "returned" =>
          /\ result.pack_id = pack_id
          /\ zipFile.st = "ok"
          /\ ChainHasHash
          /\ ChainFile.data.pack_id = result.pack_id
    /\ bpc = "raised" => (zipFile.st = "absent" \/ ~ChainHasHash)

\* C2's case: a build that raised after the archive was written.
C2_Witness == bpc = "raised" /\ zipFile.st = "ok" /\ ChainFile.st = "ok"

\* C3: where manifest.json is written, every file under evidence/ has exactly
\* one row, with the digest and size of the file's bytes on disk, and every
\* row is of a file under evidence/.
C3_ManifestMatchesDisk ==
    (DictHas(rootDir, "manifest.json") /\ DictGet(rootDir, "manifest.json").st = "ok") =>
        LET rows == DictGet(rootDir, "manifest.json").data.rows IN
        /\ \A e \in Range(evDir) :
              /\ Cardinality({i \in 1..Len(rows) : rows[i].source_path = e.key}) = 1
              /\ \A i \in 1..Len(rows) :
                    rows[i].source_path = e.key =>
                        /\ rows[i].sha256 = Sha256(e.val.data)
                        /\ rows[i].bytes = Len(e.val.data)
        /\ \A i \in 1..Len(rows) : DictHas(evDir, rows[i].source_path)

\* C3's case: a finalized pack with a redacted excerpt file, its bytes not
\* those of the excerpt in memory.
C3_Witness ==
    /\ bpc = "returned"
    /\ \E i \in 1..Len(evidence_files) :
          /\ evidence_files[i].ev.redaction_applied
          /\ DictGet(evDir, evidence_files[i].path).data # Utf8(evidence_files[i].ev.excerpt)

C10_TiesByAscendingId ==
    (lastOp = "search" /\ ~use_faiss) =>
        LET r == lastSearch.res IN
        /\ \A i, j \in 1..Len(r) :
              (i < j /\ r[i].score = r[j].score) => r[i].rec.id < r[j].rec.id
        /\ \A i \in 1..Len(r) : \A id \in 0..(Len(Vectors) - 1) :
              (Dot(RowOf(id), lastSearch.q) = r[i].score /\ id < r[i].rec.id)
                  => \E j \in 1..Len(r) : r[j].rec.id = id \/ id >= Len(metadata)

\* ------------------------------------------------ evidence collection
\* Lines 298-316 have run and left the local evidence.
Collected == bpc \notin {"idle", "collect"} /\ failedAt \notin {"idle", "collect"}

\* The key of line 307.
KeyOf(e) == <<e.filename, e.page, e.start_line>>

EvidenceIds == {evidence[i].evidence_id : i \in 1..Len(evidence)}

\* The pairs of candidates that share a key.
SameKeyPairs ==
    {ij \in (1..Len(candidates)) \X (1..Len(candidates)) :
        ij[1] < ij[2] /\ KeyOf(candidates[ij[1]]) = KeyOf(candidates[ij[2]])}

\* The keys that come before position i, and the last position of i's key.
KeysBefore(i) == {KeyOf(candidates[m]) : m \in 1..(i - 1)}
LastOfKey(i) ==
    CHOOSE j \in i..Len(candidates) :
        /\ KeyOf(candidates[j]) = KeyOf(candidates[i])
        /\ \A m \in (j + 1)..Len(candidates) : KeyOf(candidates[m]) # KeyOf(candidates[i])

\* C11 as stated: where two candidates share (filename, page, start_line)
\* the final evidence holds exactly one item of that key.
C11_ExactlyOneOfSameKey ==
    Collected =>
        \A ij \in SameKeyPairs :
            Cardinality({m \in 1..Len(evidence) :
                            KeyOf(evidence[m]) = KeyOf(candidates[ij[1]])}) = 1

\* C11 amended: of two candidates that share the key the final evidence holds
\* at most one, never the earlier; no two items of the evidence share a key;
\* and the last candidate of a key is in the evidence whenever the key is
\* among the first max_items keys of the candidates.
C11_AtMostOneOfSameKey ==
    Collected =>
        /\ \A ij \in SameKeyPairs : candidates[ij[1]].evidence_id \notin EvidenceIds
        /\ \A i, j \in 1..Len(evidence) :
              KeyOf(evidence[i]) = KeyOf(evidence[j]) => i = j
        /\ \A i \in 1..Len(candidates) :
              (KeyOf(candidates[i]) \notin KeysBefore(i)
                 /\ Cardinality(KeysBefore(i)) < req.max_items)
                  => candidates[LastOfKey(i)].evidence_id \in EvidenceIds
        /\ Len(evidence) <= req.max_items

\* C11's case: two candidates share a key and the evidence holds the later.
C11_Witness ==
    /\ Collected
    /\ \E ij \in SameKeyPairs : candidates[ij[2]].evidence_id \in EvidenceIds

\* C12: with a non-empty doc_ids filter every item of the final evidence has
\* a document id of the filter.
C12_EvidenceWithinDocIds ==
    (Collected /\ req.doc_ids # {}) =>
        \A i \in 1..Len(evidence) : evidence[i].doc_id \in req.doc_ids

\* ------------------------------------------------------------ redaction
\* The valid patterns of a list, and whether a pattern can match the glyph.
ValidOnly(pats) == SelectSeq(pats, LAMBDA q : q.valid)
MatchesGlyph(pat) == \E i \in 1..Len(pat.lit) : pat.lit[i] = "blk"

\* len(text) after the replacements the map counts.
RECURSIVE LengthAfter(_, _)
LengthAfter(n, matches) ==
    IF matches = <<>> THEN n
    ELSE LengthAfter(n + Head(matches).val * (Len(Glyph) - Len(Head(matches).key.lit)),
                     Tail(matches))

\* The map counts the replacements: its keys are patterns of the list, each
\* once, each count at least 1, and the counts account for the text's length.
CountsReplacements(call) ==
    /\ \A i \in 1..Len(call.matches) :
          /\ call.matches[i].key \in Range(ValidOnly(call.pats))
          /\ call.matches[i].val >= 1
          /\ \A j \in 1..Len(call.matches) :
                call.matches[i].key = call.matches[j].key => i = j
    /\ Len(call.text) = LengthAfter(Len(call.content), call.matches)

ExcerptFile(i) == DictGet(evDir, evidence_files[i].path)
RedactionLog(i) == DictGet(redDir, evidence_files[i].path)

\* The excerpt as collected: the build never changes it in memory.
CollectedExcerpt(i) == evidence_files[i].ev.excerpt

\* C14: with invalid patterns in the merged list, every excerpt written and
\* every redaction log is what the list without its invalid patterns gives.
C14_InvalidPatternsSkipped ==
    \A i \in 1..Len(evidence_files) :
        LET r == ApplyRedactionsText(CollectedExcerpt(i), ValidOnly(patterns)) IN
        /\ ExcerptFile(i).st = "ok"
        /\ ExcerptFile(i).data = Utf8(r.text)
        /\ RedactionLog(i).data.matches =
              [m \in 1..Len(r.matches) |->
                  [pattern |-> r.matches[m].key, count |-> r.matches[m].val]]

\* C14's case: a build that returned, an invalid pattern first in its list,
\* a valid one after it that matched.
C14_Witness ==
    /\ bpc = "returned"
    /\ Len(patterns) = 2
    /\ ~patterns[1].valid
    /\ \E i \in 1..Len(evidence_files) : Len(RedactionLog(i).data.matches) > 0

\* C15: with an empty merged pattern list every excerpt is written as
\* collected and no flag is set; and an item's redaction-applied flag is set
\* exactly when a pattern of the list matches its excerpt.
C15_FlagIffMatched ==
    \A i \in 1..Len(evidence_files) :
        /\ patterns = <<>> =>
              /\ ExcerptFile(i).data = Utf8(CollectedExcerpt(i))
              /\ ~evidence_files[i].ev.redaction_applied
        /\ evidence_files[i].ev.redaction_applied <=>
              \E m \in 1..Len(patterns) :
                  /\ patterns[m].valid
                  /\ FindAllFrom(patterns[m].lit, CollectedExcerpt(i), 1) > 0
        /\ evidence[i].redaction_applied = evidence_files[i].ev.redaction_applied

\* C15's case: a returned build with patterns, one excerpt that a pattern
\* matched and one that none matched.
C15_Witness ==
    /\ bpc = "returned"
    /\ patterns # <<>>
    /\ \E i, j \in 1..Len(evidence_files) :
          /\ evidence_files[i].ev.redaction_applied
          /\ ~evidence_files[j].ev.redaction_applied

\* C16: the steps in the stated order: an excerpt file exists only once every
\* item has been redacted, the index summary only once the manifest is
\* written, and the record on disk is the draft until the archive is made.
C16_StatesInOrder ==
    /\ evDir # <<>> => (Collected /\ (bpc = "write" => widx > Len(evidence)))
    /\ DictHas(rootDir, "index.html") => DictHas(rootDir, "manifest.json")
    /\ DictHas(rootDir, "manifest.json") => Len(evidence_files) = Len(evidence)
    /\ bpc = "zip" => (ChainFile.st = "ok" /\ ChainFile.data = chain)

\* C17: a build that failed at a step before archiving raised, left its
\* build directory with what was written, and left no archive.
C17_FailureBeforeArchive ==
    failedAt \in {"collect", "write", "index", "manifest", "chain"} =>
        /\ bpc = "raised"
        /\ result = NoResult
        /\ buildDir
        /\ zipFile.st = "absent"

\* C17's case: the manifest step failed after excerpt files were written.
C17_Witness == failedAt = "manifest" /\ evDir # <<>> /\ DictHas(rootDir, "index.html")

\* C18: a call with neither a query nor a case id raised at its first step:
\* no pack id, no build directory, no file, no archive, the store as it was.
C18_NoInputNoPack ==
    (bpc # "idle" /\ req.car_id = "" /\ req.query = "") =>
        /\ bpc = "raised"
        /\ failedAt = "idle"
        /\ result = NoResult
        /\ pack_id = 0
        /\ ~buildDir
        /\ evDir = <<>> /\ redDir = <<>> /\ rootDir = <<>>
        /\ zipFile.st = "absent"
        /\ vpc = "idle" /\ lastOp = "none"

\* C18's case: such a call on a store that holds fragments, drafts on disk.
C18_Witness ==
    /\ bpc = "raised"
    /\ req.car_id = "" /\ req.query = ""
    /\ metadata # <<>>
    /\ drafts # {}

\* C19: a build's excerpt files, redaction logs and archive order are
\* those of every build the same input allows: whatever the directory listing
\* order, the pattern set's iteration order and the order of tied hits, the
\* names, the redacted texts, the logs and the member order are the same.
C19_SameInputSamePack ==
    /\ bpc \in {"write", "index"} =>
          \A c \in EvidenceChoices(req, clock) :
              PackFiles(c.kept, c.merged) = PackFiles(evidence, patterns)
    /\ (bpc = "finalize" /\ zipFile.st = "ok") =>
          \A m \in ZipMembers(rootDir, evDir, redDir) :
              MemberNames(m) = MemberNames(zipFile.data)

\* C20: no durable file of the store is ever a partially written one.
C20_NoPartialFile ==
    /\ diskNpy.st # "corrupt"
    /\ diskFaiss.st # "corrupt"
    /\ diskMeta.st # "corrupt"

SomePatternMatches(text) ==
    \E j \in 1..Len(patterns) :
        patterns[j].valid /\ FindAllFrom(patterns[j].lit, text, 1) # 0

\* C22: an item whose redaction_applied flag is set holds the redacted text
\* in its excerpt field, and the index summaries written from the items
\* (index.html, index.pdf) carry no text that a pattern matches.
C22_FlaggedItemHoldsRedactedText ==
    \A i \in 1..Len(evidence) :
        evidence[i].redaction_applied =>
            /\ ~SomePatternMatches(evidence[i].excerpt)
            /\ \A n \in {"index.html", "index.pdf"} :
                  (DictHas(rootDir, n) /\ DictGet(rootDir, n).st = "ok") =>
                      ~SomePatternMatches(DictGet(rootDir, n).data.evidence[i].excerpt)

\* ------------------------------------------------------- source hashes
\* The fields of an EvidenceItem that could mark its hash as a fallback: any
\* field beside the eleven of lines 30-42.
FallbackMarks(ev) ==
    (DOMAIN ev) \ {"evidence_id", "doc_id", "filename", "page", "start_line", "end_line",
                   "excerpt", "citation", "source_hash", "collected_at",
                   "redaction_applied"}

\* C23: an item whose source file is found nowhere is kept with the
\* SHA-256 of its filename as source hash, and is marked as carrying a
\* fallback hash.
C23_FallbackHashFlagged ==
    \A i \in 1..Len(evidence) :
        ~SourcePresent(evidence[i].filename) =>
            /\ evidence[i].source_hash = Sha256(NameBytes(evidence[i].filename))
            /\ FallbackMarks(evidence[i]) # {}

\* --------------------------------------------------- provenance by case
\* Whether item ev is what line 153-164 make of citation c.
FromCitation(ev, c) ==
    /\ ev.filename = c.filename
    /\ ev.page = c.page
    /\ ev.start_line = c.line
    /\ ev.excerpt = Take(c.excerpt, ExcerptMax)

\* C24: the items collected from provenance for case id c have an empty
\* document id and come from citations of the draft records of case c only.
C24_ProvenanceOfTheCaseOnly ==
    (Collected /\ req.car_id # "" /\ req.include_forms) =>
        \A i \in 1..Len(candidates) :
            candidates[i].doc_id = "" =>
                \E d \in drafts :
                    /\ d.car_id = req.car_id
                    /\ \E j \in 1..Len(d.provenance) : FromCitation(candidates[i], d.provenance[j])

\* ------------------------------------------- one store, several objects
IsPrefix(a, b) == Len(a) <= Len(b) /\ \A i \in 1..Len(a) : a[i] = b[i]

\* The rows of the vector file the backend in use reads.
DurableRows(fFaiss, fNpy) ==
    LET r == InitIndex(faissAvailable, fFaiss, fNpy) IN
    IF r.use_faiss THEN r.index ELSE r.embeddings

\* C25: whichever object adds, the metadata file keeps dense ids 0..n-1, and
\* from one complete file to the next the records and rows already there stay
\* as they are: the new file only appends.
C25_DurableAppendOnly ==
    /\ [](diskMeta.st = "ok" =>
            \A i \in 1..Len(LoadMetadata(diskMeta)) : LoadMetadata(diskMeta)[i].id = i - 1)
    /\ [][(diskMeta.st = "ok" /\ diskMeta'.st = "ok") =>
              /\ IsPrefix(LoadMetadata(diskMeta), LoadMetadata(diskMeta'))
              /\ IsPrefix(DurableRows(diskFaiss, diskNpy), DurableRows(diskFaiss', diskNpy'))]_vars

\* C28: a search through a search engine, the long-lived one or one
\* constructed since, runs on records that include every record the metadata
\* file holds when the search is made (those of the adds that have returned).
C28_SearchSeesReturnedAdds ==
    [][(peer'.op = "search" /\ peer' # peer /\ diskMeta.st = "ok") =>
          \A i \in 1..Len(LoadMetadata(diskMeta)) :
              LoadMetadata(diskMeta)[i] \in Range(peer.metadata)]_vars

\* ------------------------------------------------------ the item cap
\* The key of line 307 for a hit's record.
HitKey(h) == <<h.rec.filename, h.rec.page_number, h.rec.line_start>>

\* The hits of a list that pass the document-id filter of line 106.
PassingHits(raw, doc_ids) ==
    SelectSeq(raw, LAMBDA h : doc_ids = {} \/ h.rec.doc_id \in doc_ids)

\* The keys of the first max_items hits with pairwise distinct keys, in the
\* order of the list.
RECURSIVE FirstDistinctKeys(_, _, _, _)
FirstDistinctKeys(hits, i, keys, max_items) ==
    IF i > Len(hits) \/ Len(keys) >= max_items THEN keys
    ELSE IF \E m \in 1..Len(keys) : keys[m] = HitKey(hits[i])
         THEN FirstDistinctKeys(hits, i + 1, keys, max_items)
         ELSE FirstDistinctKeys(hits, i + 1, Append(keys, HitKey(hits[i])), max_items)

\* C27: the evidence never has more than max_items items; and in a
\* query-only build whose 4 * max_items hits hold max_items passing hits of
\* pairwise distinct keys, the evidence is exactly the first max_items such
\* hits, in the order of descending score.
C27_CapReachedInScoreOrder ==
    Collected =>
        /\ Len(evidence) <= req.max_items
        /\ (req.car_id = "" /\ req.query # "") =>
              LET hits == {PassingHits(raw, req.doc_ids) :
                              raw \in RawHits(req.query, req.max_items * 4)} IN
              (\A h \in hits : Len(FirstDistinctKeys(h, 1, <<>>, req.max_items)) = req.max_items)
                  => \E h \in hits :
                        [i \in 1..Len(evidence) |-> KeyOf(evidence[i])]
                            = FirstDistinctKeys(h, 1, <<>>, req.max_items)

\* ------------------------------------------------- the archive handed out
\* C29: the download of a pack whose build raised gives an archive only if the
\* persisted chain-of-custody record has its archive hash; a build that
\* failed while archiving or before the hash was written gives not-found.
C29_DownloadOnlyFinalized ==
    (bpc = "raised" /\ download_pack = "file") => (zipFile.st = "ok" /\ ChainHasHash)

\* The members of the archive named chain_of_custody.json.
ChainMembers ==
    {i \in 1..Len(zipFile.data) :
        zipFile.data[i].dir = "" /\ zipFile.data[i].base = "chain_of_custody.json"}

\* C30: in a build that returned, the archive's chain_of_custody.json is the
\* draft, with no archive hash, while the build directory's copy has the
\* hash; the archive's root members are files of the build directory, the
\* archive not among them; and once written the archive is not written again.
C30_ArchiveHoldsDraftChain ==
    /\ [](bpc = "returned" =>
            /\ Cardinality(ChainMembers) = 1
            /\ \A i \in ChainMembers :
                  zipFile.data[i].bytes
                      = DumpChain([ChainFile.data EXCEPT !.sha256_of_zip = NoDigest])
            /\ ChainHasHash
            /\ \A i \in 1..Len(zipFile.data) :
                  /\ zipFile.data[i].dir \in {"", "evidence", "redactions"}
                  /\ zipFile.data[i].dir = "" => DictHas(rootDir, zipFile.data[i].base))
    /\ [][zipFile.st = "ok" => zipFile' = zipFile]_vars

\* C30's case: a build with evidence that returned.
C30_Witness ==
    /\ bpc = "returned"
    /\ Len(evidence) = 2
    /\ zipFile.st = "ok"
    /\ ChainFile.data.sha256_of_zip # NoDigest

\* ---------------------------------------------------- builds side by side
\* Whether the excerpt files and redaction logs on disk are those of files.
OnDisk(files) ==
    /\ Len(evDir) = Len(files)
    /\ Len(redDir) = Len(files)
    /\ \A i \in 1..Len(files) :
          /\ DictHas(evDir, files[i].name)
          /\ DictGet(evDir, files[i].name) = OkFile(Utf8(files[i].text))
          /\ DictHas(redDir, files[i].name)
          /\ DictGet(redDir, files[i].name).data.filename = files[i].filename
          /\ DictGet(redDir, files[i].name).data.page = files[i].page
          /\ [m \in 1..Len(files[i].matches) |->
                 [pattern |-> files[i].matches[m].key, count |-> files[i].matches[m].val]]
                = DictGet(redDir, files[i].name).data.matches

====
